---- MODULE Spec2Model ----
(***************************************************************************)
(* Model of agent/tools/orchestrator.py (kyotee): the phase state machine  *)
(* of main(), with call_worker, extract_json, validate_json,               *)
(* check_write_paths, run_cmd and safe_write_text.                         *)
(*                                                                         *)
(* Text is a sequence of one-character (or one-token) strings, so that     *)
(* startswith, str.replace and the two regular expressions are computed.   *)
(***************************************************************************)
EXTENDS Integers, Sequences, FiniteSets, TLC

\* ------------------------------------------------------------------ bounds
MaxPhases == 3
MaxTotalLimit == 6
MaxPhaseLimit == 2
MaxPathLen == 3
MaxPrefixLen == 2
MaxChanged == 2
MaxAllowed == 2
MaxForbidden == 2
MaxTextLen == 6

\* ------------------------------------------------------------- small sets
PhaseIds == {"plan", "implement", "verify"}
CheckNames == {"A", "B"}
ExitCodes == {0, 1}
PathChars == {"a", "/"}
PrefixChars == {"a", "/", "\\"}

SeqsUpTo(S, n) == UNION {[1..k -> S] : k \in 0..n}

Min(S) == CHOOSE x \in S : \A y \in S : x <= y
Max(S) == CHOOSE x \in S : \A y \in S : y <= x

\* ---------------------------------------------------------- text helpers
\* str.startswith
StartsWith(s, p) == Len(p) <= Len(s) /\ SubSeq(s, 1, Len(p)) = p

\* a.replace("\\", "/")
Normalize(p) == [i \in 1..Len(p) |-> IF p[i] = "\\" THEN "/" ELSE p[i]]

\* A line of `git diff --name-only`: a relative path without empty components.
WellFormedPath(p) ==
    /\ Len(p) >= 1
    /\ p[1] # "/"
    /\ p[Len(p)] # "/"
    /\ \A i \in 1..(Len(p) - 1) : ~(p[i] = "/" /\ p[i + 1] = "/")

Paths == {p \in SeqsUpTo(PathChars, MaxPathLen) : WellFormedPath(p)}
Prefixes == SeqsUpTo(PrefixChars, MaxPrefixLen)

\* p.relative_to(repo_root).as_posix() of repo_root / line
RelPosix(line) == line

\* ------------------------------------------------------ check_write_paths
ForbiddenHit(rel, forbidden_prefixes) ==
    \E i \in 1..Len(forbidden_prefixes) : StartsWith(rel, forbidden_prefixes[i])

\* (variant: an empty allow-list admits nothing)
OutsideAllowedStrict(rel, allowed_prefixes) ==
    ~(\E i \in 1..Len(allowed_prefixes) : StartsWith(rel, allowed_prefixes[i]))

OutsideAllowed(rel, allowed_prefixes) ==
    /\ allowed_prefixes # <<>>
    /\ ~(\E i \in 1..Len(allowed_prefixes) : StartsWith(rel, allowed_prefixes[i]))

\* The loop of check_write_paths: the message of the first die() reached, or
\* "ok" when the loop runs to its end.
RECURSIVE CheckFrom(_, _, _, _)
CheckFrom(changed_paths, k, allowed_prefixes, forbidden_prefixes) ==
    IF k > Len(changed_paths) THEN "ok"
    ELSE LET rel == RelPosix(changed_paths[k]) IN
         IF ForbiddenHit(rel, forbidden_prefixes) THEN "forbidden"
         ELSE IF OutsideAllowed(rel, allowed_prefixes) THEN "outside_allowed"
         ELSE CheckFrom(changed_paths, k + 1, allowed_prefixes, forbidden_prefixes)

check_write_paths(changed_paths, allowed, forbidden) ==
    LET allowed_prefixes == [i \in 1..Len(allowed) |-> Normalize(allowed[i])]
        forbidden_prefixes == [i \in 1..Len(forbidden) |-> Normalize(forbidden[i])]
    IN CheckFrom(changed_paths, 1, allowed_prefixes, forbidden_prefixes)

\* ------------------------------------------------------------ extract_json
\* Tokens of worker text: "F" a ``` fence (with optional json tag), "{" "}"
\* braces, "p" "q" the members of a JSON object, "x" any other text.
\* White space between the tokens of the text given to extract_json is not
\* represented; "\n" is the white space at the ends of the captured stdout
\* and the line break call_worker puts before the captured stderr.
Members == {"p", "q"}
TextTokens == {"F", "{", "}", "x"} \cup Members
WhiteSpace == {"\n"}

\* str.strip()
Strip(text) ==
    LET solid == {i \in 1..Len(text) : text[i] \notin WhiteSpace}
    IN IF solid = {} THEN <<>>
       ELSE SubSeq(text, CHOOSE i \in solid : \A j \in solid : i <= j,
                         CHOOSE i \in solid : \A j \in solid : j <= i)

EmptyObject == [all_passed |-> FALSE, checks |-> <<>>, failures |-> <<>>, narration |-> ""]

\* The object a member denotes.  "p": a self-reported passing verdict with a
\* narration; "q": a failing verdict whose narration is blank.
ObjectOf(m) ==
    IF m = "p"
    THEN [all_passed |-> TRUE, checks |-> <<>>, failures |-> <<>>, narration |-> "note"]
    ELSE [all_passed |-> FALSE, checks |-> <<>>, failures |-> <<>>, narration |-> " "]

\* json.loads succeeds on the region
JsonValid(region) ==
    \/ region = <<"{", "}">>
    \/ Len(region) = 3 /\ region[1] = "{" /\ region[2] \in Members /\ region[3] = "}"

JsonLoads(region) == IF Len(region) = 2 THEN EmptyObject ELSE ObjectOf(region[2])

\* MARKDOWN_JSON_RE.search(text).group(1), <<>> when there is no match:
\* the leftmost fence followed by "{", lazily extended to the first "}" that a
\* fence follows.
MarkdownClosers(text, i) ==
    {j \in (i + 2)..(Len(text) - 1) : text[j] = "}" /\ text[j + 1] = "F"}

MarkdownStarts(text) ==
    {i \in 1..(Len(text) - 1) :
        text[i] = "F" /\ text[i + 1] = "{" /\ MarkdownClosers(text, i) # {}}

MarkdownGroup(text) ==
    IF MarkdownStarts(text) = {} THEN <<>>
    ELSE LET i == Min(MarkdownStarts(text))
         IN SubSeq(text, i + 1, Min(MarkdownClosers(text, i)))

\* RAW_JSON_RE.search(text).group(1), <<>> when there is no match: greedy,
\* from the first "{" to the last "}".
RawGroup(text) ==
    LET opens == {i \in 1..Len(text) : text[i] = "{"}
        closes == {j \in 1..Len(text) : text[j] = "}"}
    IN IF opens = {} \/ closes = {} \/ Max(closes) < Min(opens) THEN <<>>
       ELSE SubSeq(text, Min(opens), Max(closes))

extract_json(text) ==
    LET md == MarkdownGroup(text)
        raw == RawGroup(text)
    IN IF md # <<>> /\ JsonValid(md) THEN [ok |-> TRUE, obj |-> JsonLoads(md), err |-> ""]
       ELSE IF raw # <<>>
            THEN IF JsonValid(raw) THEN [ok |-> TRUE, obj |-> JsonLoads(raw), err |-> ""]
                 ELSE [ok |-> FALSE, obj |-> EmptyObject, err |-> "JSON parse error"]
            ELSE [ok |-> FALSE, obj |-> EmptyObject, err |-> "No JSON object found in output"]

\* ------------------------------------------------------------ validation
\* The schema document load_schema reads: absent, not UTF-8, not JSON, or one
\* of three schemas.
Schemas == {"missing", "undecodable", "malformed", "any_object", "nothing",
            "all_passed_true"}

\* validate_json finds no error
Conforms(schema, obj) ==
    CASE schema = "any_object" -> TRUE
      [] schema = "all_passed_true" -> obj.all_passed
      [] OTHER -> FALSE

\* --------------------------------------------------------------- artifacts
\* safe_write_text: path.write_text creates or truncates; `writes` counts the
\* writes the path has received.
SafeWrite(fs, path, text) ==
    IF path \in DOMAIN fs
    THEN [fs EXCEPT ![path] = [content |-> text, writes |-> @.writes + 1]]
    ELSE fs @@ (path :> [content |-> text, writes |-> 1])

\* ------------------------------------------------------------ configuration
\* spec.toml: [[phases]] with unique ids, in order
PhaseLists ==
    {ps \in SeqsUpTo(PhaseIds, MaxPhases) :
        \A i, j \in 1..Len(ps) : i # j => ps[i] # ps[j]}

\* [policies]: allow_file_writes, allowed_write_paths, forbid_write_paths
PolicyChoices ==
    { [allow |-> FALSE, allowed |-> <<>>, forbidden |-> << <<"a">> >>],
      [allow |-> TRUE, allowed |-> <<>>, forbidden |-> <<>>],
      [allow |-> TRUE, allowed |-> << <<"a", "\\">> >>,
       forbidden |-> << <<"a", "/", "a", "/">> >>] }

\* the changed files of the working tree after a worker call: none, or two
\* of which the second lies under the forbidden prefix of each policy above
WorktreeChoices ==
    { <<>>,
      << <<"a", "/", "a">>, <<"a", "/", "a", "/", "a">> >> }

\* [commands]: "" stands for a missing or empty entry (both are falsy)
CommandMaps == [CheckNames -> {"", "sh"}]

\* [gates].required_checks: no check, one, the same one twice, or two.  The
\* code reads a name only to look up its command and to label its results, so
\* the first name listed is called A and the other one B.
CheckLists == { <<>>, <<"A">>, <<"A", "A">>, <<"A", "B">> }

\* subprocess.run of a git command with text=True (lines 112 and 125): it
\* raises FileNotFoundError when there is no git executable to start, and
\* UnicodeDecodeError when the captured output is not UTF-8; nothing catches
\* either
GitFailures == {"FileNotFoundError", "UnicodeDecodeError"}

\* `git diff --name-only` of git_changed_files: subprocess.run raises, or git
\* exits non-zero (the repo path is not a git work tree), or it lists the
\* changed files
GitDiffResults ==
    {[raised |-> e, returncode |-> 0, changed |-> <<>>] : e \in GitFailures}
       \cup {[raised |-> "", returncode |-> 1, changed |-> <<>>]}
       \cup {[raised |-> "", returncode |-> 0, changed |-> tree] :
                 tree \in WorktreeChoices}

\* `git diff` of get_diff, lines 124-126: subprocess.run raises, or the text
\* is git's output, empty when git exits non-zero or nothing has changed
GetDiffResults ==
    {[raised |-> e, text |-> ""] : e \in GitFailures}
       \cup {[raised |-> "", text |-> text] : text \in {"", "diff"}}

\* what stops a worker call before any worker runs (lines 272-278): a prompt
\* file that is missing or not UTF-8 (lines 181-183), the get_diff of line
\* 186, a worker command that cannot be started (line 155)
LaunchFailures == {"FileNotFoundError", "UnicodeDecodeError"}

\* run_cmd, lines 83-95.  Popen(cmd, cwd=repo_root, shell=True, text=True)
\* raises FileNotFoundError when the shell cannot be started in repo_root (the
\* directory is gone): no command has run (started is FALSE).  A command that
\* has run ends with an exit code, and communicate() returns its output or
\* raises the UnicodeDecodeError of output that is not UTF-8 (decoded is FALSE).
GateResults ==
    {[started |-> TRUE, exit_code |-> e, decoded |-> TRUE] : e \in ExitCodes}
       \cup {[started |-> TRUE, exit_code |-> 0, decoded |-> FALSE],
             [started |-> FALSE, exit_code |-> 0, decoded |-> FALSE]}

\* subprocess.run of the worker with text=True: it times out, or the worker
\* ends with output that is not UTF-8 (decoded is FALSE: subprocess.run raises
\* UnicodeDecodeError and returns nothing), or it returns with an exit code and
\* the captured stdout and stderr.
WorkerResults ==
    { [timeout |-> TRUE, decoded |-> TRUE, returncode |-> 0,
       stdout |-> <<>>, stderr |-> <<>>],
      [timeout |-> FALSE, decoded |-> FALSE, returncode |-> 0,
       stdout |-> <<>>, stderr |-> <<>>],
      [timeout |-> FALSE, decoded |-> TRUE, returncode |-> 1,
       stdout |-> <<"x", "\n">>, stderr |-> <<"x", "\n">>],
      [timeout |-> FALSE, decoded |-> TRUE, returncode |-> 0,
       stdout |-> <<"x">>, stderr |-> <<"{", "}", "\n">>],
      [timeout |-> FALSE, decoded |-> TRUE, returncode |-> 0,
       stdout |-> <<"{", "x", "}">>, stderr |-> <<>>],
      [timeout |-> FALSE, decoded |-> TRUE, returncode |-> 0,
       stdout |-> <<"x", "F", "{", "p", "}", "F", "\n">>, stderr |-> <<>>],
      [timeout |-> FALSE, decoded |-> TRUE, returncode |-> 0,
       stdout |-> <<"{", "}", "\n">>, stderr |-> <<"x", "\n">>] }

\* line 173 for each of them: extract_json(combined)
Extracted == [r \in WorkerResults |-> extract_json(Strip(r.stdout))]

\* the stderr of a worker that has returned 0, in SpecExtract
StderrChoices == {<<>>, <<"{", "}", "\n">>}

\* line 165
Combined(stdout) == Strip(stdout)
\* line 166: combined, then a line break and the stderr when there is any
WorkerOutputText(stdout, stderr) ==
    Combined(stdout) \o (IF stderr # <<>> THEN <<"\n">> \o stderr ELSE <<>>)

\* ------------------------------------------------------------------- state
VARIABLES
    spec_exists,          \* spec_path.exists(), line 212
    phases, max_total, max_phase,
    allow_writes, allowed_write_paths, forbid_write_paths,
    commands, required_checks,
    pc,                   \* position in main(): start, loop, worker, validate,
                          \* policy, gates, done, aborted
    current_phase_index,  \* 0-based cursor
    total_iterations, phase_iterations,
    combined,             \* the stripped stdout of the last worker call
    control,              \* the worker's control object of this iteration
    checks_report, failures,
    worktree,             \* the changed files `git diff --name-only` would list
    files,                \* what this run has written into its run directory:
                          \* path -> the content last written and the number
                          \* of writes.  main() never reads the directory
                          \* back, and it is not the run's alone: it is named
                          \* by the time to the second and made with
                          \* exist_ok=True (lines 222-224), so a run started
                          \* in the same second writes the same paths, before
                          \* and between the writes recorded here
    trace,                \* the subprocesses launched so far, in order
    error                 \* what die() reported

cfgvars == <<spec_exists, phases, max_total, max_phase, allow_writes,
             allowed_write_paths, forbid_write_paths, commands, required_checks>>
vars == <<spec_exists, phases, max_total, max_phase, allow_writes,
          allowed_write_paths, forbid_write_paths, commands, required_checks, pc,
          current_phase_index, total_iterations, phase_iterations, combined,
          control, checks_report, failures, worktree, files, trace, error>>

NoError == [kind |-> "none", detail |-> ""]
NoFiles == [k \in {} |-> 0]

\* run_dir / name
RunFile(name) == <<"", 0, "", name>>

Init ==
    /\ spec_exists \in BOOLEAN
    /\ IF spec_exists
       THEN /\ phases \in PhaseLists
            \* lines 236-238: int() of whatever [limits] holds, a negative
            \* number included
            /\ max_total \in (-1)..MaxTotalLimit
            /\ max_phase \in (-1)..MaxPhaseLimit
            /\ \E pol \in PolicyChoices :
                  /\ allow_writes = pol.allow
                  /\ allowed_write_paths = pol.allowed
                  /\ forbid_write_paths = pol.forbidden
            /\ required_checks \in CheckLists
            \* line 304 looks up the required checks only: the entry of a check
            \* that is not required is never read, and is left configured here
            /\ commands \in {m \in CommandMaps :
                               \A c \in CheckNames :
                                  (\A i \in 1..Len(required_checks) :
                                       required_checks[i] # c)
                                     => m[c] = "sh"}
       \* without a spec nothing is loaded, and line 213 ends the run before
       \* the run directory is looked at
       ELSE /\ phases = <<>>
            /\ max_total = 0
            /\ max_phase = 0
            /\ allow_writes = FALSE
            /\ allowed_write_paths = <<>>
            /\ forbid_write_paths = <<>>
            /\ required_checks = <<>>
            /\ commands = [c \in CheckNames |-> "sh"]
    /\ files = NoFiles
    /\ pc = "start"
    /\ current_phase_index = 0
    /\ total_iterations = 0
    /\ phase_iterations = [p \in PhaseIds |-> 0]
    /\ combined = <<>>
    /\ control = EmptyObject
    /\ checks_report = <<>>
    /\ failures = <<>>
    /\ worktree = <<>>
    /\ trace = <<>>
    /\ error = NoError

\* ----------------------------------------------------------------- helpers
\* (variant: the error is reported and the main loop goes on)
DieAndContinue(kind, detail) ==
    /\ pc' = "loop"
    /\ error' = [kind |-> kind, detail |-> detail]

\* die(): report and sys.exit
Die(kind, detail) ==
    /\ pc' = "aborted"
    /\ error' = [kind |-> kind, detail |-> detail]

\* an exception nothing catches ends the process as well: the ValueError of
\* line 338, the FileNotFoundError and UnicodeDecodeError of the files read
\* and the subprocesses run with text=True, the JSONDecodeError of line 63
Raise(kind, detail) ==
    /\ pc' = "aborted"
    /\ error' = [kind |-> kind, detail |-> detail]

phase_id == phases[current_phase_index + 1]
iteration == phase_iterations[phase_id]
\* (variant: one directory per phase, shared by its iterations)
PhaseFileShared(name) == <<phase_id, 1, "", name>>
\* run_dir / phase_id / iter_<n> / name, and its gate_outputs / <check>.log
PhaseFile(name) == <<phase_id, iteration, "", name>>
GateLog(check_name) == <<phase_id, iteration, "gate_outputs", check_name>>

\* (variant: the output is written only after the exit code was accepted)
PersistsOutputOnSuccess(r) == ~r.timeout /\ r.decoded /\ r.returncode = 0
\* call_worker, lines 154-166: the output is written once subprocess.run returns
PersistsOutput(r) == ~r.timeout /\ r.decoded
\* (variant: the ceiling is tested with > instead of >=)
TotalLimitReachedLate(total, limit) == total > limit
\* line 255
TotalLimitReached(total, limit) == total >= limit
\* (variant: the ceiling is tested with >= instead of >)
PhaseLimitExceededEarly(count, limit) == count >= limit
\* line 261
PhaseLimitExceeded(count, limit) == count > limit
\* (variant: the policy is enforced after the implement phase only)
WritePolicyAppliesImplementOnly(allow, pid) == allow /\ pid = "implement"
\* (variant: the policy is enforced whatever the flag says)
WritePolicyAppliesAlways(allow, pid) == TRUE
\* line 290: whatever the phase
WritePolicyApplies(allow, pid) == allow
\* line 297
RunsGates(pid) == pid = "verify"
\* (variant: exit code 1 is taken for a pass)
GateFailedSevere(exit_code) == exit_code > 1
\* line 316
GateFailed(exit_code) == exit_code # 0
\* line 323
AllPassed(fails) == Len(fails) = 0

MissingCommandIgnored(cmd) == FALSE
\* line 305: `if not cmd`, a missing entry (None) or an empty string
MissingCommand(cmd) == cmd = ""
\* (variant: the verdict is the one the worker reported)
VerifyControlTrusting(ctrl, report, fails) ==
    [all_passed |-> ctrl.all_passed, checks |-> report, failures |-> fails,
     narration |-> ctrl.narration]
\* lines 324-331 (evidence repeats the output_ref of each check)
VerifyControl(ctrl, report, fails) ==
    [all_passed |-> AllPassed(fails), checks |-> report, failures |-> fails,
     narration |-> ctrl.narration]
\* (variant: the loop-back restarts from the first phase)
ImplementIndexFirst(ps) == 0
\* (variant: the loop-back re-runs the verify phase itself)
ImplementIndexVerify(ps) == Min({i \in 1..Len(ps) : ps[i] = "verify"}) - 1
\* (variant: the loop-back resumes after the implement phase)
ImplementIndexAfter(ps) == Min({i \in 1..Len(ps) : ps[i] = "implement"})
\* line 338: [p.id for p in phases].index("implement"), 0-based
ImplementIndex(ps) == Min({i \in 1..Len(ps) : ps[i] = "implement"}) - 1
AdvanceStuck(index) == index
\* line 342
Advance(index) == index + 1

\* ------------------------------------------------------------------ actions
\* main(), lines 210-252: the configuration is read and the run directory made
Start ==
    /\ pc = "start"
    /\ IF ~spec_exists
       THEN /\ Die("spec_not_found", "")
            /\ UNCHANGED files
       ELSE IF phases = <<>>
       THEN /\ Die("no_phases", "")
            /\ UNCHANGED files
       ELSE /\ files' = SafeWrite(SafeWrite(files, RunFile("task.txt"), "task"),
                                  RunFile("spec.toml"), "spec")
            /\ pc' = "loop"
            /\ UNCHANGED error
    /\ UNCHANGED <<cfgvars, combined, current_phase_index, total_iterations, phase_iterations,
                   control, checks_report, failures, worktree, trace>>

\* (variant: the total is counted before the per-phase limit is checked)
EnterPhaseCountingRefused ==
    /\ pc = "loop"
    /\ current_phase_index < Len(phases)
    /\ IF TotalLimitReached(total_iterations, max_total)
       THEN /\ Die("max_total_iterations", "")
            /\ UNCHANGED <<phase_iterations, total_iterations>>
       ELSE /\ phase_iterations' = [phase_iterations EXCEPT ![phase_id] = @ + 1]
            /\ total_iterations' = total_iterations + 1
            /\ IF PhaseLimitExceeded(phase_iterations[phase_id] + 1, max_phase)
               THEN Die("max_phase_iterations", phase_id)
               ELSE /\ pc' = "worker"
                    /\ UNCHANGED error
    /\ UNCHANGED <<cfgvars, combined, current_phase_index, control, checks_report, failures,
                   worktree, files, trace>>

\* lines 254-264: a phase is entered
EnterPhase ==
    /\ pc = "loop"
    /\ current_phase_index < Len(phases)
    /\ IF TotalLimitReached(total_iterations, max_total)
       THEN /\ Die("max_total_iterations", "")
            /\ UNCHANGED <<phase_iterations, total_iterations>>
       ELSE /\ phase_iterations' = [phase_iterations EXCEPT ![phase_id] = @ + 1]
            /\ IF PhaseLimitExceeded(phase_iterations[phase_id] + 1, max_phase)
               THEN /\ Die("max_phase_iterations", phase_id)
                    /\ UNCHANGED total_iterations
               ELSE /\ total_iterations' = total_iterations + 1
                    /\ pc' = "worker"
                    /\ UNCHANGED error
    /\ UNCHANGED <<cfgvars, combined, current_phase_index, control, checks_report, failures,
                   worktree, files, trace>>

\* lines 266-278 and call_worker.  One of LaunchFailures ends the run before
\* a worker has run; a worker that has run leaves its event in the trace, and
\* its output in the run directory once subprocess.run has returned it.
CallWorker ==
    /\ pc = "worker"
    /\ \/ \E e \in LaunchFailures :
             /\ Raise(e, phase_id)
             /\ UNCHANGED <<combined, control, files, trace>>
       \/ \E r \in WorkerResults :
             LET out == Extracted[r] IN
             /\ trace' = Append(trace, [op |-> "worker", phase |-> phase_id,
                                        iter |-> iteration,
                                        name |-> IF r.timeout THEN "timeout"
                                                 ELSE IF ~r.decoded
                                                 THEN "undecodable"
                                                 ELSE "returned",
                                        exit_code |-> r.returncode])
             /\ files' = IF PersistsOutput(r)
                         THEN SafeWrite(files, PhaseFile("worker_output.txt"),
                                        WorkerOutputText(r.stdout, r.stderr))
                         ELSE files
             /\ combined' = IF r.timeout \/ ~r.decoded THEN combined
                            ELSE Combined(r.stdout)
             /\ IF r.timeout
                THEN /\ Die("worker_timeout", phase_id)
                     /\ UNCHANGED control
                ELSE IF ~r.decoded
                THEN /\ Raise("UnicodeDecodeError", phase_id)
                     /\ UNCHANGED control
                ELSE IF r.returncode # 0
                THEN /\ Die("worker_exit", phase_id)
                     /\ UNCHANGED control
                ELSE IF ~out.ok
                THEN /\ Die("worker_output", out.err)
                     /\ UNCHANGED control
                ELSE /\ control' = out.obj
                     /\ pc' = "validate"
                     /\ UNCHANGED error
    /\ UNCHANGED <<cfgvars, current_phase_index, total_iterations, phase_iterations,
                   checks_report, failures, worktree>>

\* lines 280-287: load_schema, validate_json, control.json and the narration
ValidateControl ==
    /\ pc = "validate"
    /\ \E schema \in Schemas :
          IF schema = "missing"
          THEN /\ Die("schema_not_found", phase_id)
               /\ UNCHANGED files
          ELSE IF schema \in {"undecodable", "malformed"}
          THEN /\ Raise(IF schema = "malformed" THEN "JSONDecodeError"
                        ELSE "UnicodeDecodeError", phase_id)
               /\ UNCHANGED files
          ELSE IF ~Conforms(schema, control)
          THEN /\ Die("schema_validation", phase_id)
               /\ UNCHANGED files
          ELSE /\ LET written == SafeWrite(files, PhaseFile("control.json"), control)
                  IN files' = IF control.narration \notin {"", " "}
                              THEN SafeWrite(written, PhaseFile("ralph.md"), control.narration)
                              ELSE written
               /\ pc' = "policy"
               /\ UNCHANGED error
    /\ UNCHANGED <<cfgvars, combined, current_phase_index, total_iterations, phase_iterations,
                   control, checks_report, failures, worktree, trace>>

\* lines 289-297 and 341-342: the write policy, then the gates or the next phase.
\* The worker has left the working tree in a state git would report as one of
\* GitDiffResults, whether or not line 290 lets the run look at it; the tree is
\* read at lines 291-294 and nowhere else, so it is kept while the iteration
\* goes on to its gates or dies, and dropped when the cursor moves.
EnforcePolicy ==
    /\ pc = "policy"
    /\ \E git \in GitDiffResults :
          LET tree == git.changed
              verdict == check_write_paths(tree, allowed_write_paths,
                                           forbid_write_paths)
          IN
          IF WritePolicyApplies(allow_writes, phase_id) /\ git.raised # ""
          THEN /\ Raise(git.raised, phase_id)
               /\ UNCHANGED <<current_phase_index, checks_report, failures, worktree>>
          ELSE IF WritePolicyApplies(allow_writes, phase_id) /\ git.returncode # 0
          THEN /\ Die("git_diff", phase_id)
               /\ UNCHANGED <<current_phase_index, checks_report, failures, worktree>>
          ELSE IF /\ WritePolicyApplies(allow_writes, phase_id)
                  /\ tree # <<>>
                  /\ verdict # "ok"
          THEN /\ Die("write_policy", verdict)
               /\ worktree' = tree
               /\ UNCHANGED <<current_phase_index, checks_report, failures>>
          ELSE IF RunsGates(phase_id)
          THEN /\ checks_report' = <<>>
               /\ failures' = <<>>
               /\ worktree' = tree
               /\ pc' = "gates"
               /\ UNCHANGED <<current_phase_index, error>>
          ELSE /\ current_phase_index' = Advance(current_phase_index)
               /\ worktree' = <<>>
               /\ pc' = "loop"
               /\ UNCHANGED <<checks_report, failures, error>>
    /\ UNCHANGED <<cfgvars, combined, total_iterations, phase_iterations, control, files, trace>>

\* lines 303-320 and run_cmd: the next required check.  A check listed again
\* is run again, and its log written again.
RunGate ==
    /\ pc = "gates"
    /\ Len(checks_report) < Len(required_checks)
    /\ LET check_name == required_checks[Len(checks_report) + 1]
           cmd == commands[check_name]
       IN IF MissingCommand(cmd)
          THEN /\ Die("missing_command", check_name)
               /\ UNCHANGED <<checks_report, failures, files, trace>>
          ELSE \E gate \in GateResults :
                  IF ~gate.started
                  THEN /\ Raise("FileNotFoundError", phase_id)
                       /\ UNCHANGED <<checks_report, failures, files, trace>>
                  ELSE /\ trace' = Append(trace,
                              [op |-> "gate", phase |-> phase_id, iter |-> iteration,
                               name |-> check_name, exit_code |-> gate.exit_code])
                       /\ IF ~gate.decoded
                          THEN /\ Raise("UnicodeDecodeError", phase_id)
                               /\ UNCHANGED <<checks_report, failures, files>>
                          ELSE /\ files' = SafeWrite(files, GateLog(check_name), cmd)
                               /\ checks_report' = Append(checks_report,
                                     [name |-> check_name, command |-> cmd,
                                      exit_code |-> gate.exit_code])
                               /\ failures' =
                                     IF GateFailed(gate.exit_code)
                                     THEN Append(failures,
                                                 [name |-> check_name,
                                                  exit_code |-> gate.exit_code])
                                     ELSE failures
                               /\ UNCHANGED <<pc, error>>
    /\ UNCHANGED <<cfgvars, combined, current_phase_index, total_iterations, phase_iterations,
                   control, worktree>>

\* lines 322-342: the authoritative control object, then loop back or advance
FinishVerify ==
    /\ pc = "gates"
    /\ Len(checks_report) = Len(required_checks)
    /\ LET verify_control == VerifyControl(control, checks_report, failures)
       IN \E schema \in Schemas :
             IF schema = "missing"
             THEN /\ Die("schema_not_found", phase_id)
                  /\ UNCHANGED <<files, current_phase_index, worktree>>
             ELSE IF schema \in {"undecodable", "malformed"}
             THEN /\ Raise(IF schema = "malformed" THEN "JSONDecodeError"
                           ELSE "UnicodeDecodeError", phase_id)
                  /\ UNCHANGED <<files, current_phase_index, worktree>>
             ELSE IF ~Conforms(schema, verify_control)
             THEN /\ Die("schema_validation", phase_id)
                  /\ UNCHANGED <<files, current_phase_index, worktree>>
             ELSE /\ files' = SafeWrite(files, PhaseFile("control.json"), verify_control)
                  /\ IF ~AllPassed(failures)
                     THEN IF "implement" \notin {phases[i] : i \in 1..Len(phases)}
                          THEN /\ Raise("ValueError", "implement")
                               /\ UNCHANGED <<current_phase_index, worktree>>
                          ELSE /\ current_phase_index' = ImplementIndex(phases)
                               /\ worktree' = <<>>
                               /\ pc' = "loop"
                               /\ UNCHANGED error
                     ELSE /\ current_phase_index' = Advance(current_phase_index)
                          /\ worktree' = <<>>
                          /\ pc' = "loop"
                          /\ UNCHANGED error
    /\ UNCHANGED <<cfgvars, combined, total_iterations, phase_iterations, control, checks_report,
                   failures, trace>>

\* lines 344-348: the loop has ended
Finish ==
    /\ pc = "loop"
    /\ current_phase_index >= Len(phases)
    /\ \E final_diff \in GetDiffResults :
          IF final_diff.raised # ""
          THEN /\ Raise(final_diff.raised, "")
               /\ UNCHANGED files
          ELSE /\ files' = SafeWrite(files, RunFile("final.diff"), final_diff.text)
               /\ pc' = "done"
               /\ UNCHANGED error
    /\ UNCHANGED <<cfgvars, combined, current_phase_index, total_iterations, phase_iterations,
                   control, checks_report, failures, worktree, trace>>

Next ==
    \/ Start
    \/ EnterPhase
    \/ CallWorker
    \/ ValidateControl
    \/ EnforcePolicy
    \/ RunGate
    \/ FinishVerify
    \/ Finish

Spec == Init /\ [][Next]_vars

\* main() is one sequential process: while the worker and the gate commands
\* return, it takes its next step.  The worker call has a timeout (line 160);
\* a gate command has none (run_cmd, line 93), so that it returns is an
\* assumption about the commands, not something the code ensures.
SpecFair == Spec /\ WF_vars(Next)

\* ------------------------------------------- check_write_paths on its own
\* check_write_paths applied to every changed-path list and prefix lists
\* within the bounds.
InitPolicy ==
    /\ spec_exists = TRUE
    /\ combined = <<>>
    /\ phases = <<"plan">>
    /\ max_total = 1
    /\ max_phase = 1
    /\ allow_writes = TRUE
    /\ allowed_write_paths \in SeqsUpTo(Prefixes, MaxAllowed)
    /\ forbid_write_paths \in SeqsUpTo(Prefixes, MaxForbidden)
    /\ commands = [c \in CheckNames |-> ""]
    /\ required_checks = <<>>
    /\ pc = "check"
    /\ current_phase_index = 0
    /\ total_iterations = 0
    /\ phase_iterations = [p \in PhaseIds |-> 0]
    /\ control = EmptyObject
    /\ checks_report = <<>>
    /\ failures = <<>>
    /\ worktree \in SeqsUpTo(Paths, MaxChanged)
    /\ files = NoFiles
    /\ trace = <<>>
    /\ error = NoError

CheckWritePaths ==
    /\ pc = "check"
    /\ IF check_write_paths(worktree, allowed_write_paths, forbid_write_paths) # "ok"
       THEN Die("write_policy",
                check_write_paths(worktree, allowed_write_paths, forbid_write_paths))
       ELSE /\ pc' = "checked"
            /\ UNCHANGED error
    /\ UNCHANGED <<cfgvars, combined, current_phase_index, total_iterations, phase_iterations,
                   control, checks_report, failures, worktree, files, trace>>

NextPolicy == CheckWritePaths

SpecPolicy == InitPolicy /\ [][NextPolicy]_vars

\* ------------------------------------------------ extract_json on its own
\* call_worker after line 166: the worker has returned 0, its stripped stdout,
\* any text within the bound, is in `combined`, and worker_output.txt holds it
\* and the stderr; lines 171-177 extract the control object from `combined`
\* or die.
InitExtract ==
    /\ spec_exists = TRUE
    /\ phases = <<"plan">>
    /\ max_total = 1
    /\ max_phase = 1
    /\ allow_writes = FALSE
    /\ allowed_write_paths = <<>>
    /\ forbid_write_paths = <<>>
    /\ commands = [c \in CheckNames |-> "sh"]
    /\ required_checks = <<>>
    /\ pc = "extract"
    /\ current_phase_index = 0
    /\ total_iterations = 1
    /\ phase_iterations = [p \in PhaseIds |-> IF p = "plan" THEN 1 ELSE 0]
    /\ control = EmptyObject
    /\ checks_report = <<>>
    /\ failures = <<>>
    /\ worktree = <<>>
    /\ \E text \in SeqsUpTo(TextTokens, MaxTextLen), stderr \in StderrChoices :
          /\ combined = Combined(text)
          /\ files = SafeWrite(NoFiles, <<"plan", 1, "", "worker_output.txt">>,
                               WorkerOutputText(text, stderr))
    /\ trace = << [op |-> "worker", phase |-> "plan", iter |-> 1,
                   name |-> "returned", exit_code |-> 0] >>
    /\ error = NoError

ExtractJson ==
    /\ pc = "extract"
    /\ LET out == extract_json(combined)
       IN IF out.ok
          THEN /\ control' = out.obj
               /\ pc' = "extracted"
               /\ UNCHANGED error
          ELSE /\ Die("worker_output", out.err)
               /\ UNCHANGED control
    /\ UNCHANGED <<cfgvars, combined, current_phase_index, total_iterations, phase_iterations,
                   checks_report, failures, worktree, files, trace>>

NextExtract == ExtractJson

SpecExtract == InitExtract /\ [][NextExtract]_vars

\* ------------------------------------------------------ what a run has done
PIV == <<"plan", "implement", "verify">>

\* worker invocations for phase p
Entries(p) == Cardinality({i \in 1..Len(trace) : trace[i].op = "worker" /\ trace[i].phase = p})

\* the gate commands run in verify iteration n, in order
GateEvents(n) == SelectSeq(trace, LAMBDA e : e.op = "gate" /\ e.iter = n)

\* verify iterations whose gates were all run
GateRounds ==
    {n \in 1..phase_iterations["verify"] : Len(GateEvents(n)) = Len(required_checks)}

RECURSIVE SumOver(_, _)
SumOver(f, S) ==
    IF S = {} THEN 0
    ELSE LET x == CHOOSE y \in S : TRUE IN f[x] + SumOver(f, S \ {x})

LimitKinds == {"max_total_iterations", "max_phase_iterations"}

\* this run has written the path
Written(path) == path \in DOMAIN files /\ files[path].writes >= 1

AllCommandsConfigured ==
    \A i \in 1..Len(required_checks) : commands[required_checks[i]] # ""

\* ------------------------------------------------------------------ claims
\* Scenario of C1: plan, implement, verify; N = max_phase >= 1; a total limit
\* that cannot bind; a gate that has failed whenever it was run.
C1Scenario ==
    /\ phases = PIV
    /\ max_phase >= 1
    /\ max_total >= 2 * max_phase + 2
    /\ required_checks # <<>>
    /\ AllCommandsConfigured
    /\ \E k \in 1..Len(required_checks) :
          \A i \in 1..Len(trace) :
             (trace[i].op = "gate" /\ trace[i].name = required_checks[k])
                => trace[i].exit_code # 0

\* C1: with phases plan, implement, verify, max_phase_iterations = N and a gate
\* that always fails, no phase is processed more than N times, the run never
\* reaches done, and when it ends on an iteration limit it is the per-phase
\* limit, after the worker was invoked and the gates were run for verify
\* exactly N times.
C1_ExactlyNVerifyEntries ==
    C1Scenario =>
        /\ \A p \in PhaseIds : Entries(p) <= max_phase
        /\ pc # "done"
        /\ (pc = "aborted" /\ error.kind \in LimitKinds) =>
              /\ error.kind = "max_phase_iterations"
              /\ Entries("verify") = max_phase
              /\ Cardinality(GateRounds) = max_phase

C1_Witness ==
    /\ C1Scenario
    /\ pc = "aborted"
    /\ error.kind = "max_phase_iterations"
    /\ max_phase = 2
    /\ Entries("verify") = 2

\* Scenario of C2: plan, implement, verify; one required gate that exits 1
\* whenever it runs; max_phase_iterations = 2; a total limit that cannot bind.
C2Scenario ==
    /\ phases = PIV
    /\ max_phase = 2
    /\ max_total >= 6
    /\ required_checks = <<"A">>
    /\ commands["A"] # ""
    /\ \A i \in 1..Len(trace) : trace[i].op = "gate" => trace[i].exit_code = 1

\* C2 as stated: in that scenario the per-phase limit abort names 'verify'.
C2_AbortNamesVerify ==
    (C2Scenario /\ pc = "aborted" /\ error.kind = "max_phase_iterations")
        => error.detail = "verify"

\* C2 as amended: in that scenario the run never reaches done, and when it
\* ends on an iteration limit it is the per-phase limit and the phase named is
\* 'implement': verify was entered twice, and the third entry of implement is
\* the one refused.
C2_AbortNamesImplement ==
    C2Scenario =>
        /\ pc # "done"
        /\ (pc = "aborted" /\ error.kind \in LimitKinds) =>
              /\ error = [kind |-> "max_phase_iterations", detail |-> "implement"]
              /\ phase_iterations = [p \in PhaseIds |->
                    IF p = "plan" THEN 1 ELSE IF p = "implement" THEN 3 ELSE 2]
              /\ Entries("verify") = 2
              /\ Entries("implement") = 2

C2_Witness ==
    /\ C2Scenario
    /\ pc = "aborted"
    /\ error.kind = "max_phase_iterations"
    /\ Len(GateEvents(2)) = 1

\* C3 as stated: the number of phase entries (the sum of phase_iterations,
\* the worker invocations, total_iterations) never exceeds
\* max_total_iterations, in the abort states as well.
C3_TotalNeverExceeded ==
    /\ SumOver(phase_iterations, PhaseIds) <= max_total
    /\ total_iterations <= max_total
    /\ Cardinality({i \in 1..Len(trace) : trace[i].op = "worker"}) <= max_total

\* C3 as amended: the number of phase entries (the sum of phase_iterations,
\* the worker invocations, total_iterations) never exceeds
\* max_total_iterations when that is 0 or more, in the abort states as well;
\* under a negative max_total_iterations no phase is entered at all.
C3_TotalWithinCeiling ==
    LET ceiling == IF max_total < 0 THEN 0 ELSE max_total IN
    /\ SumOver(phase_iterations, PhaseIds) <= ceiling
    /\ total_iterations <= ceiling
    /\ Cardinality({i \in 1..Len(trace) : trace[i].op = "worker"}) <= ceiling

C3_Witness ==
    /\ pc = "aborted"
    /\ error.kind = "max_phase_iterations"
    /\ max_total >= 2
    /\ SumOver(phase_iterations, PhaseIds) = max_total

\* ------------------------------------------------ gate results, restated
FailingOf(events) ==
    LET bad == SelectSeq(events, LAMBDA e : e.exit_code # 0)
    IN [i \in 1..Len(bad) |-> [name |-> bad[i].name, exit_code |-> bad[i].exit_code]]

\* obj reports exactly the gate commands run in verify iteration n
GateDerived(n, obj) ==
    LET events == GateEvents(n) IN
    /\ Len(events) = Len(required_checks)
    /\ Len(obj.checks) = Len(required_checks)
    /\ \A i \in 1..Len(required_checks) :
          /\ events[i].name = required_checks[i]
          /\ obj.checks[i].name = required_checks[i]
          /\ obj.checks[i].exit_code = events[i].exit_code
    /\ obj.all_passed = (\A i \in 1..Len(events) : events[i].exit_code = 0)
    /\ obj.failures = FailingOf(events)

VerifyControlFile(n) == <<"verify", n, "", "control.json">>

AtVerify(n) ==
    /\ current_phase_index < Len(phases)
    /\ phases[current_phase_index + 1] = "verify"
    /\ phase_iterations["verify"] = n

\* C4 as stated: between iterations, at the end of the run and in every abort
\* state, a control.json the run has stored for a verify iteration holds
\* all_passed, checks and failures computed from the gate commands run in that
\* iteration.
C4_NeverSelfReported ==
    pc \in {"loop", "done", "aborted"} =>
        \A n \in 1..phase_iterations["verify"] :
            Written(VerifyControlFile(n))
                => GateDerived(n, files[VerifyControlFile(n)].content)

\* C4 as amended: control.json of a verify iteration is written at most twice;
\* once rewritten it is computed from the gate commands run in that iteration,
\* and it has been rewritten in every state in which the run has left that
\* iteration.  Until then, and in the abort states of that iteration (a git
\* command that fails or cannot be run, the write policy, a gate command that
\* is missing or whose output cannot be decoded, a schema that is missing,
\* unreadable or violated by the rebuilt object), it is the worker's validated
\* self-reported object.
C4_RebuiltOnceGatesRan ==
    \A n \in 1..phase_iterations["verify"] :
        VerifyControlFile(n) \in DOMAIN files =>
            LET f == files[VerifyControlFile(n)] IN
            /\ f.writes \in {1, 2}
            /\ f.writes = 2 => GateDerived(n, f.content)
            /\ f.writes = 1 =>
                  /\ AtVerify(n)
                  /\ f.content = control
                  /\ pc \in {"policy", "gates", "aborted"}
                  /\ pc = "aborted" =>
                        error.kind \in {"git_diff", "write_policy", "missing_command",
                                        "schema_not_found", "schema_validation",
                                        "FileNotFoundError", "UnicodeDecodeError",
                                        "JSONDecodeError"}

C4_Witness ==
    /\ pc = "aborted"
    /\ error.kind = "schema_validation"
    /\ AtVerify(2)
    /\ required_checks # <<>>
    /\ Len(GateEvents(2)) = Len(required_checks)
    /\ \E i \in 1..Len(GateEvents(2)) : GateEvents(2)[i].exit_code # 0
    /\ files[VerifyControlFile(2)].writes = 1
    /\ files[VerifyControlFile(2)].content.all_passed
    /\ files[VerifyControlFile(1)].writes = 2
    /\ ~files[VerifyControlFile(1)].content.all_passed

WorkerOutputFile(e) == <<e.phase, e.iter, "", "worker_output.txt">>

\* C5 as stated: every worker invocation, whatever its outcome, has its
\* worker_output artifact.
C5_OutputAlwaysPersisted ==
    \A i \in 1..Len(trace) :
        trace[i].op = "worker" => Written(WorkerOutputFile(trace[i]))

\* C5 as amended: every worker invocation whose output subprocess.run returns
\* (any exit code, output parsable or not) has its worker_output artifact,
\* written once, also when the run aborts on it; an invocation that times out,
\* or whose output is not UTF-8, aborts the run and the run writes no
\* worker_output artifact for that phase iteration.
C5_OutputPersistedUnlessTimeout ==
    \A i \in 1..Len(trace) :
        trace[i].op = "worker" =>
            /\ trace[i].name = "returned" =>
                  /\ WorkerOutputFile(trace[i]) \in DOMAIN files
                  /\ files[WorkerOutputFile(trace[i])].writes = 1
            /\ trace[i].name \in {"timeout", "undecodable"} =>
                  /\ ~Written(WorkerOutputFile(trace[i]))
                  /\ i = Len(trace)
                  /\ pc = "aborted"
                  /\ error.kind = (IF trace[i].name = "timeout"
                                   THEN "worker_timeout"
                                   ELSE "UnicodeDecodeError")

C5_Witness ==
    /\ pc = "aborted"
    /\ error.kind = "worker_exit"
    /\ trace # <<>>
    /\ trace[Len(trace)].exit_code = 1
    /\ trace[Len(trace)].iter = 2
    /\ WorkerOutputFile(trace[Len(trace)]) \in DOMAIN files

\* C6: a failure is absorbing.  Once die() has reported, or an exception has
\* ended the process, the run is aborted and nothing is run or written any
\* more; the cursor of a run that has failed on any of its phases stays short
\* of the end of the phase sequence (a run whose phases have all ended can
\* still fail to start git for the final diff); final.diff is written in the
\* done state only, which no failed run reaches.
C6_FailuresAbsorbing ==
    /\ [](/\ (error.kind # "none") <=> (pc = "aborted")
          /\ (pc = "aborted" /\ phases # <<>>) =>
                \/ current_phase_index < Len(phases)
                \/ error.kind \in GitFailures /\ error.detail = ""
          /\ Written(RunFile("final.diff")) <=> (pc = "done")
          /\ pc = "done" => current_phase_index = Len(phases))
    /\ [][error.kind # "none" =>
            UNCHANGED <<pc, error, current_phase_index, total_iterations,
                        phase_iterations, files, trace>>]_vars

C6_Witness ==
    /\ pc = "aborted"
    /\ error.kind = "missing_command"
    /\ AtVerify(1)
    /\ Len(GateEvents(1)) = 1
    /\ total_iterations = 3

\* some gate command of the verify iteration in progress exited non-zero
GateFailureSeen ==
    \E i \in 1..Len(trace) :
        /\ trace[i].op = "gate"
        /\ trace[i].iter = phase_iterations["verify"]
        /\ trace[i].exit_code # 0

\* C7: the cursor moves forward by one, or, only from verify after a gate
\* command exited non-zero, to the position of implement; nothing else moves it
\* backward; a verify iteration left with a failed gate goes to implement and
\* one whose gates all exited 0 advances; a step that aborts never moves it.
C7_CursorMoves ==
    [][/\ current_phase_index' # current_phase_index =>
             \/ current_phase_index' = current_phase_index + 1
             \/ /\ phases[current_phase_index + 1] = "verify"
                /\ GateFailureSeen
                /\ current_phase_index' < Len(phases)
                /\ phases[current_phase_index' + 1] = "implement"
       /\ current_phase_index' < current_phase_index =>
             /\ phases[current_phase_index + 1] = "verify"
             /\ GateFailureSeen
             /\ phases[current_phase_index' + 1] = "implement"
       /\ (pc = "gates" /\ pc' = "loop") =>
             IF GateFailureSeen
             THEN /\ current_phase_index' < Len(phases)
                  /\ phases[current_phase_index' + 1] = "implement"
             ELSE current_phase_index' = current_phase_index + 1
       /\ pc' = "aborted" => current_phase_index' = current_phase_index
       /\ (pc' = "loop" /\ pc # "start") => current_phase_index' # current_phase_index
      ]_vars

C7_Witness ==
    /\ phases = PIV
    /\ pc = "loop"
    /\ current_phase_index = 1
    /\ phase_iterations["verify"] = 1
    /\ GateFailureSeen

\* ------------------------------------------------ write policy, restated
Slashed(p) == [i \in 1..Len(p) |-> IF p[i] = "\\" THEN "/" ELSE p[i]]

HasPrefix(path, prefix) == \E k \in 0..Len(path) : SubSeq(path, 1, k) = Slashed(prefix)

UnderForbidden(path, forbidden) ==
    \E i \in 1..Len(forbidden) : HasPrefix(path, forbidden[i])

UnderAllowed(path, allowed) ==
    \E i \in 1..Len(allowed) : HasPrefix(path, allowed[i])

TreeViolates(tree, allowed, forbidden) ==
    \E k \in 1..Len(tree) :
        \/ UnderForbidden(tree[k], forbidden)
        \/ allowed # <<>> /\ ~UnderAllowed(tree[k], allowed)

\* C8: check_write_paths fails iff some changed path starts with a forbidden
\* prefix (also when it starts with an allowed one) or the allowed list is not
\* empty and some changed path starts with none of its prefixes; with an empty
\* allowed list only forbidden prefixes matter, and no changed path passes.
\* Prefixes are compared with their backslashes turned into slashes.
C8_PolicyVerdict ==
    pc \in {"checked", "aborted"} =>
        /\ (pc = "aborted") <=>
              TreeViolates(worktree, allowed_write_paths, forbid_write_paths)
        /\ (\E k \in 1..Len(worktree) : UnderForbidden(worktree[k], forbid_write_paths))
              => pc = "aborted"
        /\ allowed_write_paths = <<>> =>
              ((pc = "aborted") <=>
                  \E k \in 1..Len(worktree) : UnderForbidden(worktree[k], forbid_write_paths))
        /\ worktree = <<>> => pc = "checked"
        /\ pc = "aborted" => error.kind = "write_policy"

C8_Witness ==
    /\ pc = "aborted"
    /\ Len(worktree) = 2
    /\ Len(allowed_write_paths) = 2
    /\ Len(forbid_write_paths) = 2
    \* the first path passes: it is under the second allowed prefix only, which
    \* is written with a backslash, and under no forbidden prefix
    /\ worktree[1] = <<"a", "/", "a">>
    /\ allowed_write_paths[2] = <<"a", "\\">>
    /\ ~HasPrefix(worktree[1], allowed_write_paths[1])
    /\ ~UnderForbidden(worktree[1], forbid_write_paths)
    \* the second is under an allowed prefix and under the second forbidden one
    /\ UnderAllowed(worktree[2], allowed_write_paths)
    /\ ~HasPrefix(worktree[2], forbid_write_paths[1])
    /\ HasPrefix(worktree[2], forbid_write_paths[2])

C10_GatesRunInOrder ==
    /\ pc = "gates" =>
          LET events == GateEvents(phase_iterations["verify"]) IN
          /\ Len(events) = Len(checks_report)
          /\ Len(events) <= Len(required_checks)
          /\ \A i \in 1..Len(events) :
                /\ events[i].name = required_checks[i]
                /\ checks_report[i].exit_code = events[i].exit_code
          /\ failures = FailingOf(events)
    /\ \A n \in 1..phase_iterations["verify"] :
          (VerifyControlFile(n) \in DOMAIN files /\ files[VerifyControlFile(n)].writes = 2)
             => LET obj == files[VerifyControlFile(n)].content
                    events == GateEvents(n)
                IN /\ [i \in 1..Len(events) |-> events[i].name] = required_checks
                   /\ obj.all_passed = (\A i \in 1..Len(events) : events[i].exit_code = 0)
                   /\ LET failed == {i \in 1..Len(events) : events[i].exit_code # 0}
                      IN /\ Len(obj.failures) = Cardinality(failed)
                         /\ \A j \in 1..Len(obj.failures) :
                               \E i \in failed :
                                  /\ obj.failures[j].name = events[i].name
                                  /\ Cardinality({h \in failed : h < i}) = j - 1

C10_Witness ==
    /\ required_checks = <<"A", "B">>
    /\ VerifyControlFile(1) \in DOMAIN files
    /\ files[VerifyControlFile(1)].writes = 2
    /\ ~files[VerifyControlFile(1)].content.all_passed
    /\ files[VerifyControlFile(1)].content.failures = <<[name |-> "B", exit_code |-> 1]>>
    /\ GateEvents(1) # <<>>
    /\ GateEvents(1)[1].exit_code = 0

\* ------------------------------------------------------------------- C11
HasMissingCommand ==
    \E i \in 1..Len(required_checks) : commands[required_checks[i]] = ""

FirstMissing ==
    Min({i \in 1..Len(required_checks) : commands[required_checks[i]] = ""})

AllGateEvents == SelectSeq(trace, LAMBDA e : e.op = "gate")

\* C11 as stated: with a required check that has no command, the run never
\* reaches done, never stores a verify control object with all_passed = true,
\* and runs no gate command at all.
C11_FailsBeforeAnything ==
    HasMissingCommand =>
       /\ pc # "done"
       /\ \A n \in 1..phase_iterations["verify"] :
             Written(VerifyControlFile(n))
                => ~files[VerifyControlFile(n)].content.all_passed
       /\ AllGateEvents = <<>>

\* C11 (amended): with a required check that has no command, a verify
\* iteration dies at the first such check, having run only the checks listed
\* before it; so no verify iteration completes its gates, no gate-derived
\* control object is stored, the check itself is never run, and a run whose
\* phases include verify never reaches done.
C11_MissingCommandStopsGates ==
    HasMissingCommand =>
       LET gates == AllGateEvents
           first == FirstMissing
       IN /\ \A i \in 1..Len(gates) :
                \E k \in 1..(first - 1) :
                   /\ gates[i].name = required_checks[k]
                   /\ commands[required_checks[k]] # ""
          /\ \A n \in 1..phase_iterations["verify"] :
                /\ Len(GateEvents(n)) < first
                /\ VerifyControlFile(n) \in DOMAIN files
                      => files[VerifyControlFile(n)].writes <= 1
          /\ (\E i \in 1..Len(phases) : phases[i] = "verify") => pc # "done"
          /\ error.kind = "missing_command" =>
                /\ pc = "aborted"
                /\ error.detail = required_checks[first]
                /\ Len(GateEvents(phase_iterations["verify"])) = first - 1

C11_Witness ==
    /\ pc = "aborted"
    /\ error.kind = "missing_command"
    /\ required_checks = <<"A", "B">>
    /\ error.detail = "B"
    /\ Len(AllGateEvents) = 1
    /\ AllGateEvents[1].name = "A"
    /\ Written(VerifyControlFile(1))
    /\ files[VerifyControlFile(1)].content.all_passed

\* ------------------------------------------------------------------- C12
WorkerPhases ==
    LET ws == SelectSeq(trace, LAMBDA e : e.op = "worker")
    IN [i \in 1..Len(ws) |-> ws[i].phase]

C12Scenario ==
    /\ phases = PIV
    /\ max_phase >= 1
    /\ max_total >= 3
    /\ \A i \in 1..Len(trace) : trace[i].op = "gate" => trace[i].exit_code = 0

\* C12: with phases plan, implement, verify, limits of at least 1 per phase and
\* 3 in total, and every gate exiting 0, the phases are entered in that order
\* once each; the run cannot hit an iteration limit (it stops early only on a
\* worker, schema, git, policy or missing-command failure); when it is done
\* every counter is 1, the total is 3 and final.diff has been written once, and
\* final.diff is written in no other state.
C12_HappyPath ==
    C12Scenario =>
       LET entered == WorkerPhases
       IN /\ entered = SubSeq(PIV, 1, Len(entered))
          /\ Len(entered) \in {total_iterations - 1, total_iterations}
          /\ pc \notin {"worker", "aborted"} => Len(entered) = total_iterations
          /\ pc = "aborted" => error.kind \notin LimitKinds
          /\ pc = "done" =>
                /\ entered = PIV
                /\ \A p \in PhaseIds : phase_iterations[p] = 1
                /\ total_iterations = 3
                /\ current_phase_index = 3
                /\ files[RunFile("final.diff")].writes = 1
          /\ Written(RunFile("final.diff")) => pc = "done"

C12_Witness ==
    /\ C12Scenario
    /\ pc = "done"
    /\ required_checks = <<"A", "B">>
    /\ Len(AllGateEvents) = 2
    /\ total_iterations = 3
    /\ Written(RunFile("final.diff"))

\* ------------------------------------------------------------------- C13
Terminal == pc \in {"done", "aborted"}

\* C13 as stated: while the worker and the gate commands return, every run
\* ends in done or in an abort, whatever the phase order, the limits and the
\* gate outcomes, and no more than max_total_iterations phases are ever
\* entered.
C13_TerminatesWithinLimit ==
    /\ <>Terminal
    /\ [](total_iterations <= max_total)

\* C13 as amended: while the worker and the gate commands return, every run
\* ends in done or in an abort, whatever the phase order, the limits and the
\* gate outcomes, and no more than max_total_iterations phases are ever
\* entered, none at all when that limit is negative.
C13_RunTerminates ==
    /\ <>Terminal
    /\ [](total_iterations <= Max({0, max_total}))

C13_Witness ==
    /\ pc = "done"
    /\ phase_iterations["implement"] = 2
    /\ phase_iterations["verify"] = 2
    /\ total_iterations = max_total

\* ------------------------------------------------------------------- C14
\* the text extract_json is given at line 173
WorkerText == combined

\* the regions of the text that are a JSON object on their own
Candidates(text) ==
    {c \in (1..Len(text)) \X (1..Len(text)) :
        c[1] < c[2] /\ JsonValid(SubSeq(text, c[1], c[2]))}

FirstCandidate(text) ==
    CHOOSE c \in Candidates(text) : \A d \in Candidates(text) : c[1] <= d[1]

\* C14: extract_json returns the first region of the text that is a valid JSON
\* object, and fails only when the text holds no such region.
C14_FirstValidWins ==
    pc \in {"extracted", "aborted"} =>
       IF Candidates(WorkerText) = {}
       THEN pc = "aborted"
       ELSE /\ pc = "extracted"
            /\ control = JsonLoads(SubSeq(WorkerText, FirstCandidate(WorkerText)[1],
                                          FirstCandidate(WorkerText)[2]))

\* ------------------------------------------------------------------- C15
PhaseSum == SumOver(phase_iterations, PhaseIds)

RefusedByPhaseLimit == pc = "aborted" /\ error.kind = "max_phase_iterations"

\* C15 as stated: between loop iterations and in every abort state the total
\* equals the sum of the per-phase counters.
C15_TotalIsSum ==
    pc \in {"loop", "done", "aborted"} => total_iterations = PhaseSum

\* C15 (amended): a phase entry that passes both limits adds one to its phase
\* counter and one to the total; an entry refused by the per-phase limit has
\* added one to its phase counter only.  So the total equals the sum of the
\* phase counters in every state but the per-phase-limit abort, where the sum
\* is one more; no counter ever decreases, and none moves by more than one.
C15_CountersAgree ==
    /\ [](PhaseSum = total_iterations + (IF RefusedByPhaseLimit THEN 1 ELSE 0))
    /\ [][/\ total_iterations' \in {total_iterations, total_iterations + 1}
          /\ \A p \in PhaseIds :
                phase_iterations'[p] \in {phase_iterations[p], phase_iterations[p] + 1}
          /\ total_iterations' = total_iterations + 1
                => \E p \in PhaseIds :
                      /\ phase_iterations'[p] = phase_iterations[p] + 1
                      /\ \A q \in PhaseIds \ {p} :
                            phase_iterations'[q] = phase_iterations[q]
          /\ (phase_iterations' # phase_iterations
                /\ total_iterations' = total_iterations)
                => (pc' = "aborted" /\ error'.kind = "max_phase_iterations")]_vars

C15_Witness ==
    /\ RefusedByPhaseLimit
    /\ total_iterations >= 2
    /\ PhaseSum = total_iterations + 1
    /\ phase_iterations[error.detail] = max_phase + 1

\* ------------------------------------------------------------------- C16
\* the gates of a verify iteration are over, one of them failed, and the
\* rebuilt control object is written at line 333
GateFailureHandled ==
    /\ pc = "gates"
    /\ Len(checks_report) = Len(required_checks)
    /\ failures # <<>>
    /\ files' # files

\* C16: the cursor is always an index into the phase list or its length, and
\* whenever a verify iteration ends with a failed gate the cursor is set to
\* the position of a phase whose id is implement, for every phase list.
C16_CursorValidAndRepairs ==
    /\ [](current_phase_index \in 0..Len(phases))
    /\ [][GateFailureHandled =>
             /\ pc' = "loop"
             /\ current_phase_index' < Len(phases)
             /\ phases[current_phase_index' + 1] = "implement"]_vars

\* ------------------------------------------------------------------- C17
\* C17 as stated: no artifact of a phase iteration is ever written twice.
C17_WrittenAtMostOnce ==
    \A k \in DOMAIN files : k[1] # "" => files[k].writes <= 1

\* C17 (amended): a run writes every artifact of a phase iteration at most
\* once, but for two: control.json of a verify iteration, which it writes a
\* second time, with an object that reports every required check, once the
\* gates of that iteration have run; and the log of a gate that
\* required_checks lists more than once, which every run of that gate in the
\* iteration writes again.
C17_OnlyControlAndRepeatedGateLogRewritten ==
    \A k \in DOMAIN files :
       \/ files[k].writes = 1
       \/ /\ k[1] = "verify" /\ k[3] = "gate_outputs"
          /\ LET listed == {i \in 1..Len(required_checks) : required_checks[i] = k[4]}
                 ran == {i \in 1..Len(GateEvents(k[2])) : GateEvents(k[2])[i].name = k[4]}
             IN /\ Cardinality(listed) >= 2
                /\ files[k].writes <= Cardinality(ran)
                /\ Cardinality(ran) <= Cardinality(listed)
       \/ /\ files[k].writes = 2
          /\ k[1] = "verify" /\ k[3] = "" /\ k[4] = "control.json"
          /\ k[2] <= phase_iterations["verify"]
          /\ Len(files[k].content.checks) = Len(required_checks)
          /\ \A i \in 1..Len(required_checks) :
                files[k].content.checks[i].name = required_checks[i]

C17_Witness ==
    /\ pc = "loop"
    /\ VerifyControlFile(1) \in DOMAIN files
    /\ files[VerifyControlFile(1)].writes = 2
    /\ <<"verify", 1, "", "ralph.md">> \in DOMAIN files
    /\ required_checks = <<"A", "A">>
    /\ <<"verify", 1, "gate_outputs", "A">> \in DOMAIN files
    /\ files[<<"verify", 1, "gate_outputs", "A">>].writes = 2
    /\ <<"implement", 2, "", "worker_output.txt">> \in DOMAIN files

\* ------------------------------------------------------------------- C18
HasPhase(id) == \E i \in 1..Len(phases) : phases[i] = id

\* C18: with both implement and verify among the phases, in either order, a
\* run is done only if every gate command of the latest verify iteration
\* exited 0.
C18_DoneOnlyAfterPassingGates ==
    (HasPhase("implement") /\ HasPhase("verify") /\ pc = "done") =>
       LET events == GateEvents(phase_iterations["verify"])
       IN \A i \in 1..Len(events) : events[i].exit_code = 0

\* ------------------------------------------------------------------- C19
PositionOf(id) == CHOOSE i \in 1..Len(phases) : phases[i] = id

\* phase b is listed right after phase a
Follows(a, b) ==
    \E k \in 1..(Len(phases) - 1) : phases[k] = a /\ phases[k + 1] = b

ImplementBeforeVerify ==
    /\ HasPhase("implement")
    /\ HasPhase("verify")
    /\ PositionOf("implement") < PositionOf("verify")

\* C19: when implement comes before verify, a phase before implement is
\* entered at most once; the phases are worked through in the configured
\* order, the only step back being from verify to implement, so each
\* loop-back goes through implement and every phase between it and verify
\* before verify is entered again; and the counter of implement is the
\* counter of verify or one more.
C19_RepairCycleShape ==
    ImplementBeforeVerify =>
       LET entered == WorkerPhases
       IN /\ \A k \in 1..(PositionOf("implement") - 1) :
                phase_iterations[phases[k]] <= 1
          /\ phase_iterations["verify"] <= phase_iterations["implement"]
          /\ phase_iterations["implement"] <= phase_iterations["verify"] + 1
          /\ entered # <<>> => entered[1] = phases[1]
          /\ \A i \in 1..(Len(entered) - 1) :
                \/ Follows(entered[i], entered[i + 1])
                \/ /\ entered[i] = "verify"
                   /\ entered[i + 1] = "implement"

C19_Witness ==
    /\ phases = <<"implement", "plan", "verify">>
    /\ WorkerPhases = <<"implement", "plan", "verify", "implement", "plan", "verify">>
    /\ pc = "loop"
    /\ current_phase_index = 0

\* ------------------------------------------------------------------- C20
\* C20: with allow_file_writes false git is not asked for the changed files:
\* no changed path, forbidden or not, and no git failure aborts the run, and
\* the step after a phase's validation does to the cursor, the counters and
\* the error exactly what it does when no file has changed.
C20_PolicyOffIgnoresTree ==
    /\ [](~allow_writes => error.kind \notin {"write_policy", "git_diff"})
    /\ [][(~allow_writes /\ pc = "policy") =>
             /\ pc' = (IF phase_id = "verify" THEN "gates" ELSE "loop")
             /\ current_phase_index' =
                   (IF phase_id = "verify" THEN current_phase_index
                    ELSE current_phase_index + 1)
             /\ UNCHANGED <<total_iterations, phase_iterations, control, files,
                            trace, error>>]_vars

C20_Witness ==
    /\ ~allow_writes
    /\ pc = "gates"
    /\ Len(checks_report) = 1
    /\ worktree # <<>>
    /\ \A k \in 1..Len(worktree) : UnderForbidden(worktree[k], forbid_write_paths)

====
